---- MODULE Spec2Model ----
(***************************************************************************)
(* Model of image_annotator.py (Tag the Habit): configuration loading, the *)
(* annotation store (annotations.csv), the image list with its cursor, the *)
(* radio-button selection and the per-class statistics of ImageAnnotator.  *)
(*                                                                         *)
(* Python values are kept as the code has them: current_index is 0-based,  *)
(* selected_class is -1 for "none", annotations maps a filename to an int  *)
(* (whatever int() parsed from the store), the store is a list of csv      *)
(* lines whose fields are strings.                                         *)
(***************************************************************************)
EXTENDS Integers, Sequences, FiniteSets, TLC

VARIABLES
    pc,              \* "init" before main() builds the app, "running", "exited"
    config,          \* the payload of config.json
    classes,         \* self.classes
    images,          \* self.images
    current_index,   \* self.current_index
    annotations,     \* self.annotations
    selected_class,  \* self.selected_class (tk.IntVar)
    stats,           \* the counts shown by self.stats_labels
    store,           \* the annotations file: [exists, lines]
    last,            \* the last handler run and how it ended
    labeled,         \* the filenames on_class_selected has labeled since startup
    preview          \* what display_image put into the two image panes

vars == <<pc, config, classes, images, current_index, annotations,
          selected_class, stats, store, last, labeled, preview>>

(***************************************************************************)
(* Bounds of the model.                                                    *)
(***************************************************************************)
MaxClasses == 2      \* sessions are explored with 1..MaxClasses classes
MaxRows == 2         \* data rows of the store file found at startup
MaxCfgClasses == 10  \* longest class list handed to load_config

(***************************************************************************)
(* Files.  A directory listing is a set of names; three of them are images *)
(* (one with an upper-case extension), one is not.                         *)
(***************************************************************************)
ImageNames == {"a.png", "b.jpg", "c.PNG"}
FolderFiles == ImageNames \cup {"notes.txt"}

\* the directory listings select_folder is tried with
Listings ==
    {{}, {"notes.txt"}, {"notes.txt", "b.jpg"}, {"c.PNG", "a.png"}, FolderFiles}

\* os.path-free view of a name's suffix, lower-cased (f.lower())
LowerExt(f) ==
    CASE f = "a.png" -> ".png"
      [] f = "b.jpg" -> ".jpg"
      [] f = "c.PNG" -> ".png"
      [] OTHER -> ".txt"

extensions == {".png", ".jpg", ".jpeg", ".bmp", ".gif", ".tiff"}

\* Python's str ordering on the names in use
NameRank(f) ==
    CASE f = "a.png" -> 1
      [] f = "b.jpg" -> 2
      [] f = "c.PNG" -> 3
      [] OTHER -> 4

MinName(S) == CHOOSE f \in S : \A g \in S : NameRank(f) <= NameRank(g)

RECURSIVE SortNames(_)
\* list.sort() / sorted() of a set of distinct names
SortNames(S) ==
    IF S = {} THEN <<>>
    ELSE <<MinName(S)>> \o SortNames(S \ {MinName(S)})

(***************************************************************************)
(* Integers as text: str(i) as csv.writer writes it, int(t) as the loader  *)
(* parses it.  int() accepts more than str() produces ("01", "+1").        *)
(***************************************************************************)
Digits == <<"0", "1", "2", "3", "4", "5", "6", "7", "8", "9">>
IntRange == -9..9

Str(i) == IF i >= 0 THEN Digits[i + 1] ELSE "-" \o Digits[(-i) + 1]

IntTexts(i) ==
    {Str(i)} \cup (IF i >= 0 THEN {"0" \o Str(i), "+" \o Str(i)} ELSE {})

IsIntText(t) == \E i \in IntRange : t \in IntTexts(i)

ParseInt(t) == CHOOSE i \in IntRange : t \in IntTexts(i)

(***************************************************************************)
(* Python list indexing classes[i]: negative i counts from the end, and an *)
(* index outside -len..len-1 raises IndexError.                            *)
(***************************************************************************)
ClassNames == <<"c1", "c2", "c3", "c4", "c5", "c6", "c7", "c8", "c9", "c10", "c11">>

ClassList(n) == SubSeq(ClassNames, 1, n)

IndexOk(cls, i) == -Len(cls) <= i /\ i < Len(cls)

PyIndex(cls, i) == IF i >= 0 THEN cls[i + 1] ELSE cls[Len(cls) + i + 1]

(***************************************************************************)
(* load_config.  The payload of config.json is kept as what the checks     *)
(* look at: whether the file is there and parses, what "classes" is, and   *)
(* which of the other keys are present; what kind of value the class list  *)
(* holds and the size keys have is kept as well, load_config never looks   *)
(* at it.  LoadConfig returns the exception raised ("" for none) and the   *)
(* class list it stored.                                                   *)
(***************************************************************************)
MaxShortcutClasses == 9

ConfigPayload(file, kind, n, hasAnn, hasResized, hasMax) ==
    [file |-> file, classesKind |-> kind, nClasses |-> n,
     annotations_file |-> hasAnn, resized_image_size |-> hasResized,
     max_original_display_size |-> hasMax,
     classItems |-> "str", resizedValue |-> "positive int",
     maxValue |-> "positive int"]

\* what json.load can put into a class list and under the two size keys
ItemKinds == {"str", "int", "null"}
SizeKinds == {"positive int", "zero", "negative int", "float", "str", "null"}

\* a payload with every key present, with these kinds of values
TypedPayload(n, items, resized, max) ==
    [ConfigPayload("ok", "list", n, TRUE, TRUE, TRUE) EXCEPT
        !.classItems = items, !.resizedValue = resized, !.maxValue = max]

\* load_config comparing with >= : nine classes are refused
LoadConfigRefusesNine(cfg) ==
    IF cfg.file = "missing" THEN
        [error |-> "FileNotFoundError: config.json not found", classes |-> <<>>]
    ELSE IF cfg.file = "badjson" THEN
        [error |-> "ValueError: JSON format error", classes |-> <<>>]
    ELSE IF cfg.classesKind = "absent" THEN
        [error |-> "KeyError: classes is required", classes |-> <<>>]
    ELSE IF cfg.classesKind # "list" THEN
        [error |-> "TypeError: classes must be a list", classes |-> <<>>]
    ELSE IF cfg.nClasses = 0 THEN
        [error |-> "ValueError: at least one class", classes |-> <<>>]
    ELSE IF cfg.nClasses >= MaxShortcutClasses THEN
        [error |-> "ValueError: number of classes must not exceed 9",
         classes |-> ClassList(cfg.nClasses)]
    ELSE IF ~cfg.annotations_file THEN
        [error |-> "KeyError: annotations_file is required",
         classes |-> ClassList(cfg.nClasses)]
    ELSE IF ~cfg.resized_image_size THEN
        [error |-> "KeyError: resized_image_size is required",
         classes |-> ClassList(cfg.nClasses)]
    ELSE IF ~cfg.max_original_display_size THEN
        [error |-> "KeyError: max_original_display_size is required",
         classes |-> ClassList(cfg.nClasses)]
    ELSE [error |-> "", classes |-> ClassList(cfg.nClasses)]

LoadConfig(cfg) ==
    IF cfg.file = "missing" THEN
        [error |-> "FileNotFoundError: config.json not found", classes |-> <<>>]
    ELSE IF cfg.file = "badjson" THEN
        [error |-> "ValueError: JSON format error", classes |-> <<>>]
    ELSE IF cfg.classesKind = "absent" THEN
        [error |-> "KeyError: classes is required", classes |-> <<>>]
    ELSE IF cfg.classesKind # "list" THEN
        [error |-> "TypeError: classes must be a list", classes |-> <<>>]
    ELSE IF cfg.nClasses = 0 THEN
        [error |-> "ValueError: at least one class", classes |-> <<>>]
    ELSE IF cfg.nClasses > MaxShortcutClasses THEN
        [error |-> "ValueError: number of classes must not exceed 9",
         classes |-> ClassList(cfg.nClasses)]
    ELSE IF ~cfg.annotations_file THEN
        [error |-> "KeyError: annotations_file is required",
         classes |-> ClassList(cfg.nClasses)]
    ELSE IF ~cfg.resized_image_size THEN
        [error |-> "KeyError: resized_image_size is required",
         classes |-> ClassList(cfg.nClasses)]
    ELSE IF ~cfg.max_original_display_size THEN
        [error |-> "KeyError: max_original_display_size is required",
         classes |-> ClassList(cfg.nClasses)]
    ELSE [error |-> "", classes |-> ClassList(cfg.nClasses)]

(***************************************************************************)
(* The annotations file.  A line is <<filename, class_index, class_name>>, *)
(* all text; the first line is the header csv.DictReader takes the field   *)
(* names from.                                                             *)
(***************************************************************************)
Header == <<"filename", "class_index", "class_name">>

NoAnnotations == [f \in {} |-> 0]

\* self.annotations[key] = value
Put(m, key, value) ==
    [f \in DOMAIN m \cup {key} |-> IF f = key THEN value ELSE m[f]]

RECURSIVE LoadRowsFirstWins(_, _)
\* the loop keeping the first row of a filename ("if filename not in ...")
LoadRowsFirstWins(rows, m) ==
    IF rows = <<>> THEN [error |-> "", annotations |-> m]
    ELSE IF ~IsIntText(Head(rows)[2]) THEN
        [error |-> "ValueError: invalid literal for int()", annotations |-> m]
    ELSE LoadRowsFirstWins(Tail(rows),
                           IF Head(rows)[1] \in DOMAIN m THEN m
                           ELSE Put(m, Head(rows)[1], ParseInt(Head(rows)[2])))

RECURSIVE LoadRows(_, _)
\* the for loop of load_previous_annotations over the data rows: a later row
\* overwrites an earlier one; int() raises ValueError on a non-integer
LoadRows(rows, m) ==
    IF rows = <<>> THEN [error |-> "", annotations |-> m]
    ELSE IF ~IsIntText(Head(rows)[2]) THEN
        [error |-> "ValueError: invalid literal for int()", annotations |-> m]
    ELSE LoadRows(Tail(rows), Put(m, Head(rows)[1], ParseInt(Head(rows)[2])))

\* load_previous_annotations: a missing file leaves the map as it is
LoadPreviousAnnotations(file, m) ==
    IF ~file.exists \/ file.lines = <<>> THEN [error |-> "", annotations |-> m]
    ELSE LoadRows(Tail(file.lines), m)

RECURSIVE WriteRows(_, _, _, _)
\* the for loop of save_annotations over sorted(self.annotations.items()):
\* the rows written so far stay in the file when classes[class_idx] raises
WriteRows(names, m, cls, written) ==
    IF names = <<>> THEN [error |-> "", lines |-> written]
    ELSE IF ~IndexOk(cls, m[Head(names)]) THEN
        [error |-> "IndexError: list index out of range", lines |-> written]
    ELSE WriteRows(Tail(names), m, cls,
                   Append(written, <<Head(names), Str(m[Head(names)]),
                                     PyIndex(cls, m[Head(names)])>>))

RECURSIVE Reverse(_)
Reverse(q) == IF q = <<>> THEN <<>> ELSE Append(Reverse(Tail(q)), Head(q))

\* save_annotations without sorted(): the rows come out in another order
SaveAnnotationsUnsorted(m, cls) ==
    WriteRows(Reverse(SortNames(DOMAIN m)), m, cls, <<Header>>)

\* save_annotations opening the file with 'a': the rows are added to the file
SaveAnnotationsAppend(m, cls) ==
    WriteRows(SortNames(DOMAIN m), m, cls,
              IF store.exists /\ store.lines # <<>> THEN store.lines ELSE <<Header>>)

\* save_annotations: open(..., 'w') truncates, the header is written first
SaveAnnotations(m, cls) == WriteRows(SortNames(DOMAIN m), m, cls, <<Header>>)

(***************************************************************************)
(* update_statistics: one count per class over all values of the map; a    *)
(* value outside 0..len(classes)-1 is skipped.                             *)
(***************************************************************************)
Zeros(n) == [i \in 1..n |-> 0]

RECURSIVE CountValues(_, _, _)
CountValues(names, m, counts) ==
    IF names = <<>> THEN counts
    ELSE LET class_idx == m[Head(names)] IN
         CountValues(Tail(names), m,
                     IF 0 <= class_idx /\ class_idx < Len(counts)
                     THEN [counts EXCEPT ![class_idx + 1] = @ + 1]
                     ELSE counts)

\* update_statistics counting the open folder's images only
UpdateStatisticsOpenFolder(m, cls) ==
    CountValues(SortNames(DOMAIN m \cap {images[i] : i \in 1..Len(images)}),
                m, Zeros(Len(cls)))

UpdateStatistics(m, cls) == CountValues(SortNames(DOMAIN m), m, Zeros(Len(cls)))

(***************************************************************************)
(* display_image: with a non-empty list it decodes images[current_index];  *)
(* the radio-button variable is set from the map only when nothing in the  *)
(* try block raised.  Returns the new selected_class and the signal shown. *)
(***************************************************************************)
DisplayImage(imgs, idx, m, sel, decodes) ==
    IF imgs = <<>> THEN [selected_class |-> sel, result |-> ""]
    ELSE IF ~decodes THEN
        [selected_class |-> sel, result |-> "showerror: cannot load image"]
    ELSE LET current_image == imgs[idx + 1] IN
         [selected_class |-> IF current_image \in DOMAIN m
                             THEN m[current_image] ELSE -1,
          result |-> ""]

(***************************************************************************)
(* Python floats.  "scale = self.resized_image_size / max_original_side"   *)
(* and "int(img_resized.size[0] * scale)" are computed in IEEE 754 double  *)
(* precision: the quotient and the product are each rounded to 53          *)
(* significant bits (to nearest, ties to even) and int() drops the         *)
(* fraction.  The 53-bit integers are kept as sequences of limbs of        *)
(* LimbBits bits, most significant first; a float is [mant, frac], the     *)
(* value mant / 2^frac.                                                    *)
(***************************************************************************)
MantissaBits == 53
LimbBits == 13
LimbBase == 2 ^ LimbBits

\* number of binary digits of an int n >= 0 below 2^30
BitLen(n) == Cardinality({k \in 0..29 : 2 ^ k <= n})

RECURSIVE Strip(_)
\* without leading zero limbs
Strip(x) == IF x # <<>> /\ x[1] = 0 THEN Strip(Tail(x)) ELSE x

BigBitLen(x) ==
    LET s == Strip(x)
    IN IF s = <<>> THEN 0 ELSE LimbBits * (Len(s) - 1) + BitLen(s[1])

RECURSIVE BigMulSmall(_, _, _)
\* x * k + carry, for ints k, carry below 2^17
BigMulSmall(x, k, carry) ==
    IF x = <<>> THEN (IF carry = 0 THEN <<>> ELSE BigMulSmall(<<0>>, 1, carry))
    ELSE LET t == x[Len(x)] * k + carry
         IN Append(BigMulSmall(SubSeq(x, 1, Len(x) - 1), k, t \div LimbBase),
                   t % LimbBase)

RECURSIVE BigDivSmall(_, _, _, _)
\* (rem * LimbBase^Len(x) + x) divided by k, for an int k below 2^17 and
\* rem < k: the quotient after the limbs quot, and the remainder
BigDivSmall(x, k, rem, quot) ==
    IF x = <<>> THEN [quot |-> quot, rem |-> rem]
    ELSE LET t == rem * LimbBase + Head(x)
         IN BigDivSmall(Tail(x), k, t % k, Append(quot, t \div k))

RECURSIVE BigShiftRight(_, _, _)
\* x divided by 2^n, and whether a non-zero remainder was dropped
BigShiftRight(x, n, sticky) ==
    IF n = 0 THEN [quot |-> x, sticky |-> sticky]
    ELSE LET step == IF n > LimbBits THEN LimbBits ELSE n
             d == BigDivSmall(x, 2 ^ step, 0, <<>>)
         IN BigShiftRight(d.quot, n - step, sticky \/ d.rem # 0)

RECURSIVE BigShiftLeft(_, _)
\* x times 2^n
BigShiftLeft(x, n) ==
    IF n = 0 THEN x
    ELSE LET step == IF n > LimbBits THEN LimbBits ELSE n
         IN BigShiftLeft(BigMulSmall(x, 2 ^ step, 0), n - step)

BigIsOdd(x) == x # <<>> /\ x[Len(x)] % 2 = 1

\* x, which holds one binary digit more than wanted, without that digit:
\* rounded to nearest, ties to even; sticky says that more was dropped
RoundNearestEven(x, sticky) ==
    LET half == BigDivSmall(x, 2, 0, <<>>).quot
    IN IF BigIsOdd(x) /\ (sticky \/ BigIsOdd(half))
       THEN BigMulSmall(half, 1, 1) ELSE half

\* b / m for ints b >= m >= 1, as the division of line 293 has them
FloatDiv(b, m) ==
    LET frac == MantissaBits - BitLen(b \div m)
        d == BigDivSmall(BigShiftLeft(<<b>>, frac + 1), m, 0, <<>>)
    IN [mant |-> Strip(RoundNearestEven(d.quot, d.rem # 0)), frac |-> frac]

\* w * x for an int w >= 1 and a float x
FloatMulInt(w, x) ==
    LET p == Strip(BigMulSmall(x.mant, w, 0))
        drop == BigBitLen(p) - MantissaBits
    IN IF drop <= 0 THEN [mant |-> p, frac |-> x.frac]
       ELSE LET cut == BigShiftRight(p, drop - 1, FALSE)
            IN [mant |-> Strip(RoundNearestEven(cut.quot, cut.sticky)),
                frac |-> x.frac - drop]

\* int(x) for a float x >= 0 below 2^26
PyInt(x) ==
    LET whole == Strip(BigShiftRight(x.mant, x.frac, FALSE).quot)
    IN IF whole = <<>> THEN 0
       ELSE IF Len(whole) = 1 THEN whole[1]
       ELSE whole[1] * LimbBase + whole[2]

(***************************************************************************)
(* The two image panes of display_image.  The left pane shows the image    *)
(* itself or a message, the right pane a copy brought to the configured    *)
(* size: enlarged with resize() to the int() of the scaled sides, or       *)
(* reduced with Pillow's Image.thumbnail().                                *)
(***************************************************************************)
MaxOf(original_size) ==
    IF original_size[1] >= original_size[2] THEN original_size[1]
    ELSE original_size[2]

\* lines 276-286: what the left pane shows
OriginalDisplay(original_size, resized_image_size) ==
    IF MaxOf(original_size) <= resized_image_size THEN "image" ELSE "message"

\* lines 293-295: int(side * (resized_image_size / max_original_side))
Enlarged(original_size, resized_image_size) ==
    LET scale == FloatDiv(resized_image_size, MaxOf(original_size))
    IN <<PyInt(FloatMulInt(original_size[1], scale)),
         PyInt(FloatMulInt(original_size[2], scale))>>

Abs(i) == IF i >= 0 THEN i ELSE -i

\* Image.thumbnail((bound, bound)) on an image with a side above bound: the
\* longer side becomes bound; the other side is the whole number below or
\* above long * short / bound whose ratio to bound is nearer to the image's
\* (round_aspect), and at least 1.  Pillow compares the two ratios as
\* floats: where they are equally near, either may come out.
ShortSides(short, long, bound, widthIsShort) ==
    LET lo == (bound * short) \div long
        hi == IF (bound * short) % long = 0 THEN lo ELSE lo + 1
        errLo == IF widthIsShort THEN Abs(short * bound - lo * long)
                 ELSE Abs(long * lo - bound * short) * hi
        errHi == IF widthIsShort THEN Abs(short * bound - hi * long)
                 ELSE Abs(long * hi - bound * short) * lo
    IN IF lo = 0 THEN {1}
       ELSE IF errLo < errHi THEN {lo}
       ELSE IF errHi < errLo THEN {hi}
       ELSE {lo, hi}

Thumbnail(original_size, bound) ==
    IF original_size[1] <= original_size[2]
    THEN {<<x, bound>> :
            x \in ShortSides(original_size[1], original_size[2], bound, TRUE)}
    ELSE {<<bound, y>> :
            y \in ShortSides(original_size[2], original_size[1], bound, FALSE)}

\* the right pane sized by the shorter side of the image
ResizedSizesByShortSide(original_size, resized_image_size) ==
    LET short == IF original_size[1] <= original_size[2] THEN original_size[1]
                 ELSE original_size[2]
    IN {<<(original_size[1] * resized_image_size) \div short,
          (original_size[2] * resized_image_size) \div short>>}

\* the right pane with each side brought to the configured size on its own
ResizedSizesStretched(original_size, resized_image_size) ==
    IF MaxOf(original_size) = resized_image_size THEN {original_size}
    ELSE {<<resized_image_size, resized_image_size>>}

\* lines 289-301: the sizes img_resized can have
ResizedSizes(original_size, resized_image_size) ==
    IF MaxOf(original_size) < resized_image_size
    THEN {Enlarged(original_size, resized_image_size)}
    ELSE IF MaxOf(original_size) > resized_image_size
    THEN Thumbnail(original_size, resized_image_size)
    ELSE {original_size}

\* nothing displayed yet
NoPreview ==
    [original_size |-> <<0, 0>>, resized_image_size |-> 0,
     original_display |-> "none", resized_size |-> <<0, 0>>]

(***************************************************************************)
(* Initial states: main() has not run yet.  The configuration and the      *)
(* annotations file are whatever is on disk.                               *)
(***************************************************************************)
\* The data rows found at startup: a row as save_annotations writes it, one
\* whose index int() accepts in another spelling, a negative index, an index
\* beyond every class list in use, and one that is no integer; the class
\* name of a row may be out of date.
StoreNames == {"a.png", "c.PNG"}
StoreRows ==
    {<<f, "0", "c1">> : f \in StoreNames}
    \cup {<<f, t, "old">> : f \in StoreNames, t \in {"01", "-1", "7", "x"}}

SeqsUpTo(S, n) == UNION {[1..k -> S] : k \in 0..n}

InitialStores ==
    {[exists |-> FALSE, lines |-> <<>>], [exists |-> TRUE, lines |-> <<>>]}
    \cup {[exists |-> TRUE, lines |-> <<Header>> \o rows] :
            rows \in SeqsUpTo(StoreRows, MaxRows)}

SessionConfigs ==
    {ConfigPayload("ok", "list", n, TRUE, TRUE, TRUE) : n \in 1..MaxClasses}

\* op names the handler and the branch it took, arg is the class index of a
\* selection, result the exception or dialog it ended with ("" for none),
\* repeat says that the handler before it was the same selection
Handler(op, arg, result, repeat) ==
    [op |-> op, arg |-> arg, result |-> result, repeat |-> repeat]

Unbuilt ==
    /\ pc = "init"
    /\ classes = <<>>
    /\ images = <<>>
    /\ current_index = 0
    /\ annotations = NoAnnotations
    /\ selected_class = -1
    /\ stats = <<>>
    /\ last = Handler("none", 0, "", FALSE)
    /\ labeled = {}

Init ==
    /\ config \in SessionConfigs
    /\ store \in InitialStores
    /\ preview = NoPreview
    /\ Unbuilt

(***************************************************************************)
(* main() and ImageAnnotator.__init__: load_config, the empty session,     *)
(* setup_ui (all counts 0), load_previous_annotations, update_statistics.  *)
(* Any exception on the way ends the process with exit code 1.             *)
(***************************************************************************)
Startup ==
    /\ pc = "init"
    /\ LET cfg == LoadConfig(config)
           loaded == LoadPreviousAnnotations(store, NoAnnotations)
       IN IF cfg.error # "" THEN
              /\ pc' = "exited"
              /\ last' = Handler("startup", 0, cfg.error, FALSE)
              /\ UNCHANGED <<classes, annotations, stats>>
          ELSE IF loaded.error # "" THEN
              /\ pc' = "exited"
              /\ last' = Handler("startup", 0, loaded.error, FALSE)
              /\ UNCHANGED <<classes, annotations, stats>>
          ELSE
              /\ pc' = "running"
              /\ classes' = cfg.classes
              /\ annotations' = loaded.annotations
              /\ stats' = UpdateStatistics(loaded.annotations, cfg.classes)
              /\ last' = Handler("startup", 0, "", FALSE)
    /\ UNCHANGED <<config, images, current_index, selected_class, store, labeled,
                   preview>>

(***************************************************************************)
(* select_folder / load_images for a directory listing.                    *)
(***************************************************************************)
LoadImages(listing) == SortNames({f \in listing : LowerExt(f) \in extensions})

\* load_images without "self.current_index = 0": display_image indexes the
\* new list with the old cursor (IndexError when it is past the end)
OpenFolderKeepsCursor(listing, decodes) ==
    /\ pc = "running"
    /\ images' = LoadImages(listing)
    /\ IF images' # <<>> /\ current_index < Len(images') THEN
           LET shown == DisplayImage(images', current_index, annotations,
                                     selected_class, decodes)
           IN /\ selected_class' = shown.selected_class
              /\ last' = Handler("openFolder", 0, shown.result, FALSE)
       ELSE IF images' # <<>> THEN
           /\ last' = Handler("openFolder", 0, "IndexError: list index out of range", FALSE)
           /\ UNCHANGED selected_class
       ELSE
           /\ last' = Handler("openFolder", 0, "showwarning: no images found", FALSE)
           /\ UNCHANGED selected_class
    /\ UNCHANGED <<pc, config, classes, current_index, annotations, stats, store,
                   labeled, preview>>

\* load_images starting a fresh session when the folder holds no image
OpenFolderForgetsOnEmpty(listing, decodes) ==
    /\ pc = "running"
    /\ images' = LoadImages(listing)
    /\ IF images' # <<>> THEN
           LET shown == DisplayImage(images', 0, annotations, selected_class, decodes)
           IN /\ current_index' = 0
              /\ selected_class' = shown.selected_class
              /\ last' = Handler("openFolder", 0, shown.result, FALSE)
              /\ UNCHANGED annotations
       ELSE
           /\ last' = Handler("openFolder", 0, "showwarning: no images found", FALSE)
           /\ annotations' = NoAnnotations
           /\ UNCHANGED <<current_index, selected_class>>
    /\ UNCHANGED <<pc, config, classes, stats, store, labeled, preview>>

OpenFolder(listing, decodes) ==
    /\ pc = "running"
    /\ images' = LoadImages(listing)
    /\ IF images' # <<>> THEN
           LET shown == DisplayImage(images', 0, annotations, selected_class, decodes)
           IN /\ current_index' = 0
              /\ selected_class' = shown.selected_class
              /\ last' = Handler("openFolder", 0, shown.result, FALSE)
       ELSE
           /\ last' = Handler("openFolder", 0, "showwarning: no images found", FALSE)
           /\ UNCHANGED <<current_index, selected_class>>
    /\ UNCHANGED <<pc, config, classes, annotations, stats, store, labeled, preview>>

(***************************************************************************)
(* previous_image / next_image.                                            *)
(***************************************************************************)
\* previous_image without "self.images and": the cursor moves down on an
\* empty list as well (display_image then returns at once)
PreviousImageUnguarded(decodes) ==
    /\ pc = "running"
    /\ IF current_index > 0 THEN
           LET shown == DisplayImage(images, current_index - 1, annotations,
                                     selected_class, decodes)
           IN /\ current_index' = current_index - 1
              /\ selected_class' = shown.selected_class
              /\ last' = Handler("previous", 0, shown.result, FALSE)
       ELSE
           /\ last' = Handler("previous_noop", 0, "", FALSE)
           /\ UNCHANGED <<current_index, selected_class>>
    /\ UNCHANGED <<pc, config, classes, images, annotations, stats, store, labeled,
                   preview>>

PreviousImage(decodes) ==
    /\ pc = "running"
    /\ IF images # <<>> /\ current_index > 0 THEN
           LET shown == DisplayImage(images, current_index - 1, annotations,
                                     selected_class, decodes)
           IN /\ current_index' = current_index - 1
              /\ selected_class' = shown.selected_class
              /\ last' = Handler("previous", 0, shown.result, FALSE)
       ELSE
           /\ last' = Handler("previous_noop", 0, "", FALSE)
           /\ UNCHANGED <<current_index, selected_class>>
    /\ UNCHANGED <<pc, config, classes, images, annotations, stats, store, labeled,
                   preview>>

\* next_image wrapping round to the first image at the end of the list
NextImageWraps(decodes) ==
    /\ pc = "running"
    /\ IF images # <<>> THEN
           LET target == (current_index + 1) % Len(images)
               shown == DisplayImage(images, target, annotations,
                                     selected_class, decodes)
           IN /\ current_index' = target
              /\ selected_class' = shown.selected_class
              /\ last' = Handler("next", 0, shown.result, FALSE)
       ELSE
           /\ last' = Handler("next_noop", 0, "", FALSE)
           /\ UNCHANGED <<current_index, selected_class>>
    /\ UNCHANGED <<pc, config, classes, images, annotations, stats, store, labeled,
                   preview>>

NextImage(decodes) ==
    /\ pc = "running"
    /\ IF images # <<>> /\ current_index < Len(images) - 1 THEN
           LET shown == DisplayImage(images, current_index + 1, annotations,
                                     selected_class, decodes)
           IN /\ current_index' = current_index + 1
              /\ selected_class' = shown.selected_class
              /\ last' = Handler("next", 0, shown.result, FALSE)
       ELSE
           /\ last' = Handler("next_noop", 0, "", FALSE)
           /\ UNCHANGED <<current_index, selected_class>>
    /\ UNCHANGED <<pc, config, classes, images, annotations, stats, store, labeled,
                   preview>>

(***************************************************************************)
(* select_class_by_key(class_index) and a click on radio button            *)
(* class_index: the variable is set, then on_class_selected runs: it puts  *)
(* the class into the map, calls save_annotations and then                 *)
(* update_statistics.  Nothing catches what save_annotations raises: the   *)
(* OSError of open() when the file cannot be written (writable = FALSE),   *)
(* which leaves the file as it was, or the IndexError of a row.  Then      *)
(* update_statistics is not reached.                                       *)
(***************************************************************************)
CannotOpen == "OSError: cannot open the annotations file for writing"

\* on_class_selected with save_annotations inside try / except: pass
OnClassSelectedSwallows(class_index, writable) ==
    /\ pc = "running"
    /\ selected_class' = class_index
    /\ IF images # <<>> /\ selected_class' >= 0 THEN
           LET current_image == images[current_index + 1]
               marked == Put(annotations, current_image, selected_class')
               saved == SaveAnnotations(marked, classes)
               again == last.op = "select" /\ last.arg = class_index
           IN /\ annotations' = marked
              /\ labeled' = labeled \cup {current_image}
              /\ stats' = UpdateStatistics(marked, classes)
              /\ IF writable THEN
                     /\ store' = [exists |-> TRUE, lines |-> saved.lines]
                     /\ last' = Handler("select", class_index, "", again)
                 ELSE
                     /\ last' = Handler("select_oserror", class_index, "", FALSE)
                     /\ UNCHANGED store
       ELSE
           /\ last' = Handler("select_noop", class_index, "", FALSE)
           /\ UNCHANGED <<annotations, store, stats, labeled>>
    /\ UNCHANGED <<pc, config, classes, images, current_index, preview>>

OnClassSelected(class_index, writable) ==
    /\ pc = "running"
    /\ selected_class' = class_index
    /\ IF images # <<>> /\ selected_class' >= 0 THEN
           LET current_image == images[current_index + 1]
               marked == Put(annotations, current_image, selected_class')
               saved == SaveAnnotations(marked, classes)
               again == last.op = "select" /\ last.arg = class_index
           IN /\ annotations' = marked
              /\ labeled' = labeled \cup {current_image}
              /\ IF writable THEN
                     /\ store' = [exists |-> TRUE, lines |-> saved.lines]
                     /\ stats' = IF saved.error = ""
                                 THEN UpdateStatistics(marked, classes) ELSE stats
                     /\ last' = Handler("select", class_index, saved.error, again)
                 ELSE
                     /\ last' = Handler("select_oserror", class_index, CannotOpen, FALSE)
                     /\ UNCHANGED <<store, stats>>
       ELSE
           /\ last' = Handler("select_noop", class_index, "", FALSE)
           /\ UNCHANGED <<annotations, store, stats, labeled>>
    /\ UNCHANGED <<pc, config, classes, images, current_index, preview>>

(***************************************************************************)
(* Ctrl+S: save_annotations on its own.                                    *)
(***************************************************************************)
SaveKey(writable) ==
    /\ pc = "running"
    /\ IF writable THEN
           LET saved == SaveAnnotations(annotations, classes)
           IN /\ store' = [exists |-> TRUE, lines |-> saved.lines]
              /\ last' = Handler("save", 0, saved.error, FALSE)
       ELSE
           /\ last' = Handler("save_oserror", 0, CannotOpen, FALSE)
           /\ UNCHANGED store
    /\ UNCHANGED <<pc, config, classes, images, current_index, annotations,
                   selected_class, stats, labeled, preview>>

Next ==
    \/ Startup
    \/ \E listing \in Listings, decodes \in BOOLEAN :
           OpenFolder(listing, decodes)
    \/ \E decodes \in BOOLEAN : PreviousImage(decodes)
    \/ \E decodes \in BOOLEAN : NextImage(decodes)
    \/ \E class_index \in 0..(Len(classes) - 1) : OnClassSelected(class_index, TRUE)
    \/ SaveKey(TRUE)

Spec == Init /\ [][Next]_vars

(***************************************************************************)
(* Startup alone, over every kind of config.json load_config tells apart.  *)
(***************************************************************************)
AllConfigs ==
    {ConfigPayload(file, "absent", 0, FALSE, FALSE, FALSE) :
        file \in {"missing", "badjson"}}
    \cup {ConfigPayload("ok", kind, 0, a, r, m) :
            kind \in {"absent", "notlist"}, a \in BOOLEAN, r \in BOOLEAN,
            m \in BOOLEAN}
    \cup {ConfigPayload("ok", "list", n, a, r, m) :
            n \in 0..MaxCfgClasses, a \in BOOLEAN, r \in BOOLEAN, m \in BOOLEAN}
    \cup {TypedPayload(n, items, resized, max) :
            n \in {1, MaxShortcutClasses}, items \in ItemKinds,
            resized \in SizeKinds, max \in SizeKinds}

CfgStores ==
    {[exists |-> FALSE, lines |-> <<>>],
     [exists |-> TRUE, lines |-> <<Header, <<"a.png", "0", "c1">>>>],
     [exists |-> TRUE, lines |-> <<Header, <<"a.png", "x", "old">>>>]}

InitCfg ==
    /\ config \in AllConfigs
    /\ store \in CfgStores
    /\ preview = NoPreview
    /\ Unbuilt

NextCfg == Startup

SpecCfg == InitCfg /\ [][NextCfg]_vars

(***************************************************************************)
(* Sessions in which the annotations file may refuse to be opened for      *)
(* writing (read-only file, directory gone), over fewer startup files and  *)
(* folders.                                                                *)
(***************************************************************************)
IOStores ==
    {[exists |-> FALSE, lines |-> <<>>],
     [exists |-> TRUE, lines |-> <<Header, <<"c.PNG", "0", "c1">>>>],
     [exists |-> TRUE, lines |-> <<Header, <<"a.png", "7", "old">>>>]}

IOListings == {{"notes.txt"}, {"c.PNG", "a.png"}}

InitIO ==
    /\ config \in SessionConfigs
    /\ store \in IOStores
    /\ preview = NoPreview
    /\ Unbuilt

NextIO ==
    \/ Startup
    \/ \E listing \in IOListings : OpenFolder(listing, TRUE)
    \/ PreviousImage(TRUE)
    \/ NextImage(TRUE)
    \/ \E class_index \in 0..(Len(classes) - 1), writable \in BOOLEAN :
           OnClassSelected(class_index, writable)
    \/ \E writable \in BOOLEAN : SaveKey(writable)

SpecIO == InitIO /\ [][NextIO]_vars

(***************************************************************************)
(* display_image's sizing alone, over images of every size up to MaxSide   *)
(* and some larger ones, and every configured size up to MaxBound and 100. *)
(***************************************************************************)
MaxSide == 12
MaxBound == 16

Sides == (1..MaxSide) \cup {50, 100, 2000, 4000}
ConfiguredSizes == (1..MaxBound) \cup {100}

InitScale ==
    /\ config \in {ConfigPayload("ok", "list", 1, TRUE, TRUE, TRUE)}
    /\ store = [exists |-> FALSE, lines |-> <<>>]
    /\ \E width \in Sides, height \in Sides, size \in ConfiguredSizes :
           preview = [NoPreview EXCEPT !.original_size = <<width, height>>,
                                       !.resized_image_size = size]
    /\ Unbuilt

\* the try block of display_image up to line 301 for a decoded image
DisplaySizes(resized_size) ==
    /\ preview.original_display = "none"
    /\ preview' = [preview EXCEPT
           !.original_display = OriginalDisplay(preview.original_size,
                                                preview.resized_image_size),
           !.resized_size = resized_size]
    /\ UNCHANGED <<pc, config, classes, images, current_index, annotations,
                   selected_class, stats, store, last, labeled>>

NextScale ==
    \E resized_size \in ResizedSizes(preview.original_size,
                                     preview.resized_image_size) :
        DisplaySizes(resized_size)

SpecScale == InitScale /\ [][NextScale]_vars

(***************************************************************************)
(* Properties.                                                             *)
(***************************************************************************)
CurrentImage == images[current_index + 1]

Loaded == pc = "running" /\ images # <<>>

\* the rows a file must hold for the map m, in the order of the filenames
RowOf(m, f) == <<f, Str(m[f]), PyIndex(classes, m[f])>>

HoldsExactly(file, m) ==
    /\ file.exists
    /\ Len(file.lines) = Cardinality(DOMAIN m) + 1
    /\ file.lines[1] = Header
    /\ \A f \in DOMAIN m : \E i \in 2..Len(file.lines) : file.lines[i] = RowOf(m, f)
    /\ \A i, j \in 2..Len(file.lines) :
           i < j => NameRank(file.lines[i][1]) < NameRank(file.lines[j][1])

\* C1: when on_class_selected has run on a non-empty image list and returned
\* (save_annotations did not raise), the annotations file holds the header
\* and then exactly one row per entry of self.annotations (filename, index,
\* classes[index]), in ascending order of the filenames.
C1_SelectPersistsMap ==
    (last.op = "select" /\ last.result = "") => HoldsExactly(store, annotations)

\* a selection has returned with an entry of the startup file still in the
\* map next to an entry for an image labeled since, outside the open folder
C1_Witness ==
    /\ last.op = "select" /\ last.result = ""
    /\ Cardinality(DOMAIN annotations) >= 2
    /\ \E f \in DOMAIN annotations : f \notin labeled
    /\ \E f \in DOMAIN annotations : \A i \in 1..Len(images) : images[i] # f

\* C2: on an image that has no label the radio buttons show none (-1),
\* right after on_class_selected(k) they show k, and whenever the cursor is
\* (back) on an image labeled k since startup they show its label.
C2_SelectionShowsLabel ==
    Loaded =>
        /\ CurrentImage \notin DOMAIN annotations => selected_class = -1
        /\ last.op = "select" => selected_class = last.arg
        /\ CurrentImage \in labeled => selected_class = annotations[CurrentImage]

\* what load_previous_annotations would read from a file
StoreMap(file) == LoadPreviousAnnotations(file, NoAnnotations).annotations

NavigationOps == {"next", "next_noop", "previous", "previous_noop", "openFolder"}
SessionOps == NavigationOps \cup {"select", "select_noop"}

\* C3: a step of openFolder, next, previous or selectClass changes the map
\* at most at the image under the cursor and only when it is a selection;
\* navigation leaves map and file alone; no entry leaves the map, and no
\* entry leaves the file or changes there except the one under the cursor.
C3_OnlyCursorEntryChanges ==
    [][(pc = "running" /\ last'.op \in SessionOps) =>
          /\ last'.op \in NavigationOps =>
                 annotations' = annotations /\ store' = store
          /\ \A f \in DOMAIN annotations :
                 /\ f \in DOMAIN annotations'
                 /\ annotations'[f] # annotations[f] =>
                        last'.op = "select" /\ f = CurrentImage
          /\ \A f \in DOMAIN annotations' \ DOMAIN annotations :
                 last'.op = "select" /\ f = CurrentImage
          /\ \A f \in DOMAIN StoreMap(store) :
                 /\ f \in DOMAIN StoreMap(store')
                 /\ StoreMap(store')[f] # StoreMap(store)[f] =>
                        last'.op = "select" /\ f = CurrentImage
      ]_vars

\* C4: with a non-empty image list the cursor is an index into it, and
\* load_images on a folder with images leaves the cursor at 0.
C4_CursorInRange ==
    Loaded =>
        /\ 0 <= current_index /\ current_index < Len(images)
        /\ last.op = "openFolder" => current_index = 0

\* a one-image folder has been opened after the third image of a larger
\* folder had been labeled, so the cursor had been at 2
C4_Witness ==
    /\ Loaded /\ last.op = "openFolder"
    /\ Len(images) = 1 /\ current_index = 0
    /\ "c.PNG" \in labeled /\ "b.jpg" \in labeled

\* C5: next_image / previous_image move the cursor by one inside the list
\* and leave it where it is, without an error, at the last / first image.
C5_NavigationClamps ==
    [][pc = "running" =>
          /\ last'.op \in {"next", "next_noop"} =>
                 /\ current_index' =
                        IF images # <<>> /\ current_index + 1 <= Len(images) - 1
                        THEN current_index + 1 ELSE current_index
                 /\ (images # <<>> /\ current_index = Len(images) - 1) =>
                        last'.op = "next_noop" /\ last'.result = ""
          /\ last'.op \in {"previous", "previous_noop"} =>
                 /\ current_index' =
                        IF images # <<>> /\ current_index - 1 >= 0
                        THEN current_index - 1 ELSE current_index
                 /\ (images # <<>> /\ current_index = 0) =>
                        last'.op = "previous_noop" /\ last'.result = ""
      ]_vars

\* next_image has been called at the last image of a three-image list
C5_Witness ==
    /\ Loaded /\ Len(images) = 3 /\ current_index = 2
    /\ last.op = "next_noop"

\* C6: on_class_selected(i) run a second time in a row (same image, same
\* i) changes neither the map nor the counts shown nor the file.
C6_SelectIdempotent ==
    [][(pc = "running" /\ last.op = "select" /\ last'.op = "select"
            /\ last'.arg = last.arg) =>
          /\ annotations' = annotations
          /\ stats' = stats
          /\ store' = store
      ]_vars

\* the same class has been selected twice in a row, with other entries in
\* the map, and the save went through
C6_Witness ==
    /\ last.op = "select" /\ last.repeat /\ last.result = ""
    /\ Cardinality(DOMAIN annotations) >= 2

\* C7: after save_annotations has written the map M, reading the file back
\* gives M again, and saving what was read gives the same file.
C7_StoreRoundTrip ==
    (pc = "running" /\ last.op \in {"save", "select"}) =>
        LET read == LoadPreviousAnnotations(store, NoAnnotations)
        IN /\ read.error = ""
           /\ read.annotations = annotations
           /\ SaveAnnotations(read.annotations, classes).lines = store.lines

\* C8: the counts update_statistics computes are, for every class index c,
\* the number of entries of the whole map with value c, whatever folder is
\* open; they are the counts shown after startup and after a selection.
C8_StatisticsCountWholeMap ==
    pc = "running" =>
        LET counts == UpdateStatistics(annotations, classes)
        IN /\ Len(counts) = Len(classes)
           /\ \A c \in 0..(Len(classes) - 1) :
                  counts[c + 1] =
                      Cardinality({f \in DOMAIN annotations : annotations[f] = c})
           /\ (last.op = "startup" \/ (last.op = "select" /\ last.result = ""))
                  => stats = counts

\* the map {a:0, b:1, c:0} with two classes shows [2, 1] while a folder
\* holding only one of the three images is open
C8_Witness ==
    /\ pc = "running" /\ Len(classes) = 2
    /\ DOMAIN annotations = ImageNames
    /\ annotations["a.png"] = 0 /\ annotations["b.jpg"] = 1
    /\ annotations["c.PNG"] = 0
    /\ stats = <<2, 1>>
    /\ images = <<"b.jpg">>

\* C9: load_images on a folder without images leaves the map as it is,
\* empties the image list, shows the warning and raises nothing.
C9_EmptyFolderWarns ==
    [][(pc = "running" /\ last'.op = "openFolder" /\ images' = <<>>) =>
          /\ annotations' = annotations
          /\ last'.result = "showwarning: no images found"
          /\ pc' = "running"
      ]_vars

\* an empty folder has been opened from a session with labeled images and
\* the cursor off the first image
C9_Witness ==
    /\ pc = "running" /\ images = <<>> /\ last.op = "openFolder"
    /\ last.result = "showwarning: no images found"
    /\ labeled # {} /\ current_index > 0

ClassCountErrors ==
    {"ValueError: at least one class",
     "ValueError: number of classes must not exceed 9"}

\* C10: a config.json with every key present and 1..9 classes passes
\* load_config (the session starts unless the annotations file is
\* unreadable); with 0 classes or with 10 and more, load_config raises the
\* error of the class-count rule, the process exits and no session exists.
C10_ClassCountRule ==
    (pc # "init" /\ config.file = "ok" /\ config.classesKind = "list") =>
        /\ (config.nClasses \in 1..9 /\ config.annotations_file
                /\ config.resized_image_size /\ config.max_original_display_size) =>
               \/ pc = "running" /\ classes = ClassList(config.nClasses)
                    /\ last.result = ""
               \/ pc = "exited" /\ last.result = "ValueError: invalid literal for int()"
        /\ config.nClasses = 0 =>
               last.result = "ValueError: at least one class"
        /\ config.nClasses >= 10 =>
               last.result = "ValueError: number of classes must not exceed 9"
        /\ last.result \in ClassCountErrors =>
               /\ pc = "exited"
               /\ classes = <<>> /\ annotations = NoAnnotations /\ stats = <<>>
               /\ config.nClasses \notin 1..9

\* a class list of ten has been refused
C10_Witness ==
    /\ pc = "exited" /\ config.classesKind = "list" /\ config.nClasses = 10
    /\ last.result = "ValueError: number of classes must not exceed 9"

(***************************************************************************)
(* Properties of the sizing (SpecScale).                                   *)
(***************************************************************************)
Displayed == preview.original_display # "none"

ExampleShown(original_size, resized_image_size) ==
    /\ Displayed
    /\ preview.original_size = original_size
    /\ preview.resized_image_size = resized_image_size

\* C11 as stated: an image of 50x100 with the configured size 100 gets a
\* right pane enlarged to 100x200, and the left pane shows the image itself.
C11_ExampleEnlarged ==
    ExampleShown(<<50, 100>>, 100) =>
        /\ preview.resized_size = <<100, 200>>
        /\ preview.original_display = "image"

\* C11: an image of 50x100 with the configured size 100 has its longer side
\* at the configured size already: the right pane shows it unchanged at
\* 50x100, and the left pane shows the image itself.
C11_ExampleUnchanged ==
    ExampleShown(<<50, 100>>, 100) =>
        /\ preview.resized_size = <<50, 100>>
        /\ preview.original_display = "image"

\* the 50x100 image has been displayed with the configured size 100
C11_Witness ==
    /\ ExampleShown(<<50, 100>>, 100)
    /\ preview.resized_size = preview.original_size

\* C12: with m the longer side of the image and b the configured size, the
\* right pane is the image's size when m = b, (floor(w*b/m), floor(h*b/m))
\* when m < b, and has its longer side at b when m > b (4000x2000 with
\* b = 100 gives 100x50); in all three cases its longer side is b.
C12_PreviewLongSideIsBound ==
    Displayed =>
        LET w == preview.original_size[1]
            h == preview.original_size[2]
            b == preview.resized_image_size
            m == MaxOf(preview.original_size)
        IN /\ m = b => preview.resized_size = <<w, h>>
           /\ m < b => preview.resized_size = <<(w * b) \div m, (h * b) \div m>>
           /\ m > b => MaxOf(preview.resized_size) = b
           /\ ExampleShown(<<4000, 2000>>, 100) => preview.resized_size = <<100, 50>>
           /\ MaxOf(preview.resized_size) = b

\* C13 as stated: the sides of the right pane are in the exact proportion of
\* the image's sides, w' * h = h' * w.
C13_AspectExact ==
    Displayed =>
        preview.resized_size[1] * preview.original_size[2]
            = preview.resized_size[2] * preview.original_size[1]

\* C13: both sides of the right pane come from the one factor b / m (b the
\* configured size, m the image's longer side): each is a whole number less
\* than one pixel, or exactly one pixel, away from its side times b / m; the
\* proportion is exact when m = b, where the size is unchanged.
C13_AspectWithinOnePixel ==
    Displayed =>
        LET b == preview.resized_image_size
            m == MaxOf(preview.original_size)
        IN /\ \A i \in 1..2 :
                  Abs(preview.resized_size[i] * m - preview.original_size[i] * b) <= m
           /\ m = b => preview.resized_size = preview.original_size

\* an image has been enlarged and another reduced to sides that are not in
\* the exact proportion of the original's
C13_Witness ==
    /\ Displayed
    /\ MaxOf(preview.original_size) # preview.resized_image_size
    /\ preview.original_size[1] # preview.original_size[2]
    /\ preview.resized_size[1] * preview.original_size[2]
           # preview.resized_size[2] * preview.original_size[1]

(***************************************************************************)
(* Properties of the handlers' guards and of what they let through.        *)
(***************************************************************************)
GuardedOps ==
    {"next", "next_noop", "previous", "previous_noop",
     "select", "select_noop", "select_oserror"}

C15_IndicesInRange ==
    pc = "running" =>
        /\ \A f \in DOMAIN annotations :
               0 <= annotations[f] /\ annotations[f] < Len(classes)
        /\ last.op \in {"save", "select"} =>
               \A i \in 2..Len(store.lines) :
                   /\ IsIntText(store.lines[i][2])
                   /\ 0 <= ParseInt(store.lines[i][2])
                   /\ ParseInt(store.lines[i][2]) < Len(classes)

\* the entry of the map for the image under the cursor, -1 for none
Lookup(m, f) == IF f \in DOMAIN m THEN m[f] ELSE -1

\* C17: when the image next_image, previous_image or load_images moves to
\* cannot be decoded, the handler raises nothing, the cursor is on that
\* image all the same, and the radio buttons show what the map holds for
\* it (its class or none): with a folder open, selected_class is always the
\* map's entry for the image under the cursor.
C17_SelectionFollowsCursor ==
    /\ last.result = "showerror: cannot load image" =>
           /\ pc = "running"
           /\ last.op \in {"next", "previous", "openFolder"}
           /\ 0 <= current_index /\ current_index < Len(images)
    /\ Loaded => selected_class = Lookup(annotations, CurrentImage)

WellTyped(cfg) ==
    /\ cfg.file = "ok" /\ cfg.classesKind = "list"
    /\ cfg.classItems = "str"
    /\ cfg.annotations_file
    /\ cfg.resized_image_size /\ cfg.resizedValue = "positive int"
    /\ cfg.max_original_display_size /\ cfg.maxValue = "positive int"

\* C16: every config.json in which a required key is missing or has a value
\* of the wrong type (classes no list of strings, resized_image_size or
\* max_original_display_size no positive integer) is refused: main reports
\* the error and exits, and no ImageAnnotator exists.
C16_IllTypedConfigRefused ==
    (pc # "init" /\ ~WellTyped(config)) =>
        /\ pc = "exited"
        /\ last.result # ""
        /\ classes = <<>> /\ annotations = NoAnnotations /\ stats = <<>>

(***************************************************************************)
(* Properties of a selection whose save fails (SpecIO).                    *)
(***************************************************************************)
SelectOps == {"select", "select_oserror"}

\* C18: when save_annotations fails inside on_class_selected, because the
\* file cannot be opened for writing or because writing a row raises, the
\* exception leaves on_class_selected; a selection that returns without one
\* has written the whole map.
C18_SaveFailurePropagates ==
    (pc = "running" /\ last.op \in SelectOps) =>
        /\ last.op = "select_oserror" => last.result = CannotOpen
        /\ (last.op = "select"
                /\ \E f \in DOMAIN annotations : ~IndexOk(classes, annotations[f]))
               => last.result = "IndexError: list index out of range"
        /\ last.result = "" => HoldsExactly(store, annotations)

\* the file could not be opened for a selection made while an older row was
\* on file, and the caller got the OSError
C18_Witness ==
    /\ pc = "running" /\ last.op = "select_oserror" /\ last.result = CannotOpen
    /\ Cardinality(DOMAIN annotations) >= 2
    /\ store.exists /\ Len(store.lines) = 2

\* C19: after startup and after every handler, also a selection whose save
\* failed, the counts shown are the per-class counts of the map and the map
\* is what the annotations file holds.
C19_MapFileCountsInStep ==
    (pc = "running" /\ last.op \in {"startup"} \cup SessionOps \cup SelectOps) =>
        /\ stats = UpdateStatistics(annotations, classes)
        /\ StoreMap(store) = annotations

\* the data rows of the startup file
StartupRows == IF store.exists /\ store.lines # <<>> THEN Tail(store.lines) ELSE <<>>

\* C20: load_previous_annotations, when it returns, leaves the empty map if
\* the file does not exist, and otherwise a map with exactly one entry per
\* filename in the file, whose value is the class_index of the last row with
\* that filename.
C20_LoadLastRowWins ==
    (pc = "running" /\ last.op = "startup") =>
        /\ ~store.exists => annotations = NoAnnotations
        /\ DOMAIN annotations = {StartupRows[i][1] : i \in 1..Len(StartupRows)}
        /\ \A i \in 1..Len(StartupRows) :
               (\A j \in (i + 1)..Len(StartupRows) :
                    StartupRows[j][1] # StartupRows[i][1])
                   => annotations[StartupRows[i][1]] = ParseInt(StartupRows[i][2])

\* a file with two rows for the same filename and different indices has
\* been loaded
C20_Witness ==
    /\ pc = "running" /\ last.op = "startup"
    /\ Len(StartupRows) = 2
    /\ StartupRows[1][1] = StartupRows[2][1]
    /\ ParseInt(StartupRows[1][2]) # ParseInt(StartupRows[2][2])
    /\ Cardinality(DOMAIN annotations) = 1

====
